---- MODULE Spec2Model ----
(***************************************************************************)
(* State-machine model of the Transmission/Gluetun health-check agent      *)
(* roles/torrenter/files/transmission-healthcheck/check.py.                *)
(*                                                                         *)
(* Python strings are TLA+ strings (Len, \o and SubSeq act on them).       *)
(* An optional value (a dict key that may be absent, a None) is a set:     *)
(* None is {} and a present value v is {v}.                                *)
(***************************************************************************)
EXTENDS Integers, Sequences, FiniteSets, TLC

\* ------------------------------------------------------------------ bounds

\* Longest torrent list the daemon returns in the model.
MaxTorrents == 2

\* Longest free-text field (code, context, name, errorString, exception text)
\* drawn for the message renderer.
MaxStrLen == 105

\* ------------------------------------------------------- program constants

\* The length limit of the Healthchecks.io message (hc_message).
HcLimit == 100

\* Characters kept before the "..." marker of a generic truncation.
EllipsisCut == 97

\* Transmission's error code of a torrent in "local error" state.
SystemErrorCode == 3

\* ----------------------------------------------------------- Python values

None == {}

Some(v) == {v}

Val(o) == CHOOSE v \in o : TRUE

\* str(x) inside an f-string, for an optional integer and an optional string.
FmtInt(o) == IF o = None THEN "None" ELSE ToString(Val(o))

FmtStr(o) == IF o = None THEN "None" ELSE Val(o)

\* dict.get(key, "N/A") of a number, formatted.
FmtOrNA(o) == IF o = None THEN "N/A" ELSE ToString(Val(o))

\* Truth value of an optional integer / an optional string.
TruthyInt(o) == o # None /\ Val(o) # 0

TruthyStr(o) == o # None /\ Val(o) # ""

\* a or b, for optional strings.
PyOr(a, b) == IF TruthyStr(a) THEN a ELSE b

Min(a, b) == IF a <= b THEN a ELSE b

Max(a, b) == IF a >= b THEN a ELSE b

\* s[:n]
Slice(s, n) ==
    IF n >= 0 THEN SubSeq(s, 1, Min(n, Len(s)))
    ELSE SubSeq(s, 1, Max(0, Len(s) + n))

IsSpace(c) == c \in {" ", "\n", "\t", "\r"}

RECURSIVE LStrip(_)
LStrip(s) ==
    IF Len(s) > 0 /\ IsSpace(SubSeq(s, 1, 1))
    THEN LStrip(SubSeq(s, 2, Len(s)))
    ELSE s

RECURSIVE RStrip(_)
RStrip(s) ==
    IF Len(s) > 0 /\ IsSpace(SubSeq(s, Len(s), Len(s)))
    THEN RStrip(SubSeq(s, 1, Len(s) - 1))
    ELSE s

\* str.strip()
Strip(s) == RStrip(LStrip(s))

\* ------------------------------------------------------- HealthcheckError

HealthcheckError(message, diag_context, torrent, mismatch_ports, portcheck_error) ==
    [type            |-> "HealthcheckError",
     message         |-> message,
     diag_context    |-> diag_context,
     torrent         |-> torrent,
     mismatch_ports  |-> mismatch_ports,
     portcheck_error |-> portcheck_error]

\* Any other exception: its class name and str(e).
OtherError(type, text) ==
    [type            |-> type,
     message         |-> text,
     diag_context    |-> None,
     torrent         |-> None,
     mismatch_ports  |-> None,
     portcheck_error |-> None]

NoExc == OtherError("none", "")

\* An exception of the requests library that reaches main as it was raised: its
\* class is requests' own (requests.exceptions.ConnectionError is not the
\* builtin ConnectionError).
RequestException(f) == OtherError("requests.exceptions." \o f.name, f.text)

PortcheckDetail(e) ==
    LET pe == Val(e.portcheck_error)
    IN  FmtStr(PyOr(pe.content, pe.exception))

MismatchDetail(e) ==
    LET mp == Val(e.mismatch_ports)
    IN  "(G:" \o FmtInt(mp.gluetun) \o "|T:" \o FmtInt(mp.transmission) \o ")"

TorrentIdName(e) ==
    LET t == Val(e.torrent)
    IN  " T:" \o ToString(t.id) \o "(" \o t.name \o ")"

TorrentIdOnly(e) == " T:" \o ToString(Val(e.torrent).id)

full_message(e) ==
    IF e.portcheck_error # None
    THEN e.message \o "(" \o PortcheckDetail(e) \o ") | " \o FmtStr(e.diag_context)
    ELSE IF e.mismatch_ports # None
    THEN e.message \o MismatchDetail(e) \o " | " \o FmtStr(e.diag_context)
    ELSE IF e.torrent # None
    THEN e.message \o TorrentIdName(e) \o " - " \o Val(e.torrent).errorString
         \o " | " \o FmtStr(e.diag_context)
    ELSE IF TruthyStr(e.diag_context)
    THEN e.message \o " | " \o Val(e.diag_context)
    ELSE e.message

\* Mutant of hc_torrent: the torrent name is never dropped; a prefix that
\* leaves no room is cut at the limit.
hc_torrent_keeps_name(e) ==
    LET p1  == e.message
        p2  == TorrentIdName(e)
        p3  == ": " \o Val(e.torrent).errorString
        msg == p1 \o p2 \o p3
        available_len == HcLimit - Len(p1 \o p2)
    IN  IF Len(msg) <= HcLimit THEN msg
        ELSE IF available_len > 4
        THEN p1 \o p2 \o Slice(p3, available_len - 3) \o "..."
        ELSE Slice(p1 \o p2, HcLimit)

\* Mutant of hc_torrent: the tail is cut without room for the "..." marker.
hc_torrent_no_room(e) ==
    LET p1  == e.message
        p2  == TorrentIdName(e)
        p3  == ": " \o Val(e.torrent).errorString
        msg == p1 \o p2 \o p3
        available_len == HcLimit - Len(p1 \o p2)
        p2_trunc == TorrentIdOnly(e)
        available_len2 == HcLimit - Len(p1 \o p2_trunc)
    IN  IF Len(msg) <= HcLimit THEN msg
        ELSE IF available_len > 4
        THEN p1 \o p2 \o Slice(p3, available_len) \o "..."
        ELSE IF available_len2 > 4
        THEN p1 \o p2_trunc \o Slice(p3, available_len2) \o "..."
        ELSE Slice(p1 \o p2_trunc, HcLimit)

\* The torrent branch of hc_message (lines 65-85).
hc_torrent(e) ==
    LET p1  == e.message
        p2  == TorrentIdName(e)
        p3  == ": " \o Val(e.torrent).errorString
        msg == p1 \o p2 \o p3
        available_len == HcLimit - Len(p1 \o p2)
        p2_trunc == TorrentIdOnly(e)
        available_len2 == HcLimit - Len(p1 \o p2_trunc)
    IN  IF Len(msg) <= HcLimit THEN msg
        ELSE IF available_len > 4
        THEN p1 \o p2 \o Slice(p3, available_len - 3) \o "..."
        ELSE IF available_len2 > 4
        THEN p1 \o p2_trunc \o Slice(p3, available_len2 - 3) \o "..."
        ELSE Slice(p1 \o p2_trunc, HcLimit)

\* Mutant of hc_message: the detail branches cut the full message, context
\* suffix included, at the limit.
hc_message_keeps_context(e) ==
    LET full_msg == full_message(e)
    IN  IF Len(full_msg) <= HcLimit THEN full_msg
        ELSE IF e.portcheck_error # None
        THEN Slice(full_msg, HcLimit)
        ELSE IF e.mismatch_ports # None
        THEN Slice(full_msg, HcLimit)
        ELSE IF e.torrent # None
        THEN hc_torrent(e)
        ELSE Slice(full_msg, EllipsisCut) \o "..."

\* Mutant of hc_message: a full message of exactly the limit is truncated too.
hc_message_strict(e) ==
    LET full_msg == full_message(e)
    IN  IF Len(full_msg) < HcLimit THEN full_msg
        ELSE IF e.portcheck_error # None
        THEN Slice(e.message \o "(" \o PortcheckDetail(e) \o ")", HcLimit)
        ELSE IF e.mismatch_ports # None
        THEN Slice(e.message \o MismatchDetail(e), HcLimit)
        ELSE IF e.torrent # None
        THEN hc_torrent(e)
        ELSE Slice(full_msg, EllipsisCut) \o "..."

\* Mutant of hc_message: the generic branch cuts at the limit, with no marker.
hc_message_hard_cut(e) ==
    LET full_msg == full_message(e)
    IN  IF Len(full_msg) <= HcLimit THEN full_msg
        ELSE IF e.portcheck_error # None
        THEN Slice(e.message \o "(" \o PortcheckDetail(e) \o ")", HcLimit)
        ELSE IF e.mismatch_ports # None
        THEN Slice(e.message \o MismatchDetail(e), HcLimit)
        ELSE IF e.torrent # None
        THEN hc_torrent(e)
        ELSE Slice(full_msg, HcLimit)

hc_message(e) ==
    LET full_msg == full_message(e)
    IN  IF Len(full_msg) <= HcLimit THEN full_msg
        ELSE IF e.portcheck_error # None
        THEN Slice(e.message \o "(" \o PortcheckDetail(e) \o ")", HcLimit)
        ELSE IF e.mismatch_ports # None
        THEN Slice(e.message \o MismatchDetail(e), HcLimit)
        ELSE IF e.torrent # None
        THEN hc_torrent(e)
        ELSE Slice(full_msg, EllipsisCut) \o "..."

\* ------------------------------------------------------------ environment

\* requests.RequestException instances a transport failure raises: the class
\* name and str(e).
RequestFailures ==
    {[name |-> "ConnectionError", text |-> "Connection refused"],
     [name |-> "ConnectTimeout",
      text |-> "HTTPConnectionPool(host='localhost'): Max retries exceeded with url (Caused by ConnectTimeoutError('Connection timed out'))"]}

\* Response.raise_for_status(): raises HTTPError for 4xx and 5xx.
RaisesForStatus(status) == status >= 400 /\ status < 600

\* str() of the HTTPError raise_for_status raises.
HttpErrorText(status) ==
    ToString(status)
    \o (IF status < 500 THEN " Client Error" ELSE " Server Error")
    \o " for url"

\* One HTTP exchange as the environment answers it: a transport failure, or a
\* response with a status, the X-Transmission-Session-Id header, a body text
\* and the parsed JSON fields the program reads.
NoJson ==
    [port               |-> None,
     status             |-> None,
     peer_port          |-> None,
     activeTorrentCount |-> None,
     downloadSpeed      |-> None,
     uploadSpeed        |-> None,
     torrents           |-> <<>>]

Failure(f) ==
    [failure |-> Some(f), status |-> 0, header |-> None, text |-> "", json |-> NoJson]

Response(status, header, text, json) ==
    [failure |-> None, status |-> status, header |-> header, text |-> text, json |-> json]

Failures == {Failure(f) : f \in RequestFailures}

\* GET {GLUETUN_BASE_URL}/v1/portforward
GluetunPortValues == {None, Some(0), Some(51413), Some(60000)}

GluetunPortResponses ==
    Failures
    \cup {Response(401, None, "", NoJson)}
    \cup {Response(200, None, "", [NoJson EXCEPT !.port = p]) : p \in GluetunPortValues}

\* GET {GLUETUN_BASE_URL}/v1/vpn/status
GluetunVpnValues == {None, Some(""), Some("running")}

GluetunVpnResponses ==
    Failures
    \cup {Response(500, None, "", NoJson)}
    \cup {Response(200, None, "", [NoJson EXCEPT !.status = s]) : s \in GluetunVpnValues}

\* The daemon's session tokens.
Tokens == {"t1", "t2"}

Headers == {None} \cup {Some(t) : t \in Tokens}

\* GET {TR_RPC_URL}: the daemon answers 409 with the token (or, unexpectedly,
\* 200), with or without the header.
HandshakeResponses ==
    Failures \cup {Response(s, h, "", NoJson) : s \in {409, 200}, h \in Headers}

RpcMethods == {"session-get", "session-stats", "torrent-get"}

PeerPortValues == {None, Some(0), Some(51413), Some(60000)}

TorrentPool ==
    {[id |-> 1,  name |-> "ubuntu.iso", error |-> 0, errorString |-> ""],
     [id |-> 9,  name |-> "arch.iso",   error |-> 2, errorString |-> "Tracker gave HTTP 404"],
     [id |-> 42, name |-> "debian.iso", error |-> 3, errorString |-> "No data found"],
     [id |-> 7,  name |-> "mint.iso",   error |-> 3, errorString |-> "Permission denied"]}

TorrentLists == UNION {[1..n -> TorrentPool] : n \in 0..MaxTorrents}

\* The "arguments" of a 200 answer to each method.
RpcJson(method) ==
    CASE method = "session-get" ->
           {[NoJson EXCEPT !.peer_port = p] : p \in PeerPortValues}
      [] method = "session-stats" ->
           {NoJson,
            [NoJson EXCEPT !.activeTorrentCount = Some(2),
                           !.downloadSpeed = Some(1000),
                           !.uploadSpeed = Some(500)]}
      [] OTHER ->
           {[NoJson EXCEPT !.torrents = ts] : ts \in TorrentLists}

\* POST {TR_RPC_URL}
RpcResponses(method) ==
    Failures
    \cup {Response(409, h, "", NoJson) : h \in Headers}
    \cup {Response(500, None, "", NoJson)}
    \cup {Response(200, None, "", j) : j \in RpcJson(method)}

\* GET https://portcheck.transmissionbt.com/{port}
ProbeBodies == {"1", "0", "1\n", " 0", "", "banana"}

ProbeResponses ==
    Failures
    \cup {Response(503, None, "", NoJson)}
    \cup {Response(200, None, b, NoJson) : b \in ProbeBodies}

\* ------------------------------------------------------------------ state

VARIABLES
    pc,            \* main's position: "loop", "gluetun_port", "gluetun_vpn",
                   \* an RPC method, "probe", "success", "except", "finally"
    tr_session,    \* the X-Transmission-Session-Id header of tr_session, or None
    loc,           \* main's locals of the current cycle
    rpc,           \* the frame of the run_transmission_rpc call in progress or
                   \* just ended (gone once main goes on to the probe)
    sent,          \* pings, Gluetun GETs, handshake GETs, RPC calls and probes
                   \* issued in the current cycle
    fetched,       \* fetches of the current cycle that returned a result
    exc,           \* the exception raised in the current cycle, or NoExc
    prev_outcome,  \* how the previous cycle ended: "none", "success", "fail"
    last_ping,     \* the latest ping_healthchecks call: event, url suffix, body
    ping_failed    \* the latest step was a ping that failed and was logged

vars == <<pc, tr_session, loc, rpc, sent, fetched, exc, prev_outcome, last_ping, ping_failed>>

ZeroSent ==
    [start |-> 0, success |-> 0, fail |-> 0,
     gluetun |-> 0, handshake |-> 0, calls |-> 0, probe |-> 0]

InitLoc ==
    [gluetun_port       |-> None,
     gluetun_vpn_status |-> None,
     session_data       |-> NoJson,
     session_stats      |-> NoJson,
     torrents_data      |-> NoJson,
     probe_response     |-> Response(0, None, "", NoJson),
     port_status_bool   |-> None,
     port_check_error   |-> None,
     diagnostic_context |-> "No Additional Info"]

NoFrame ==
    [method |-> "none", outcome |-> "none", gets |-> 0, posts |-> 0, updates |-> 0,
     handshake |-> None, first |-> None, retry |-> None, cause |-> None]

NewFrame(method) == [NoFrame EXCEPT !.method = method, !.outcome = "running"]

\* The frame of the call in progress for `method`, or a new one at its entry.
CurFrame(method) ==
    IF rpc.method = method /\ rpc.outcome = "running" THEN rpc ELSE NewFrame(method)

NoPing == [event |-> "none", url |-> "", body |-> ""]

Init ==
    /\ pc = "loop"
    /\ tr_session = None
    /\ loc = InitLoc
    /\ rpc = NoFrame
    /\ sent = ZeroSent
    /\ fetched = {}
    /\ exc = NoExc
    /\ prev_outcome = "none"
    /\ last_ping = NoPing
    /\ ping_failed = FALSE

\* How the cycle whose counters are in `sent` ended.
Outcome ==
    IF sent.success > 0 THEN "success"
    ELSE IF sent.fail > 0 THEN "fail"
    ELSE "none"

\* ------------------------------------------------------------ operations

\* ping_healthchecks(event, message): one POST, counted on top of `base`; a
\* RequestException is logged and swallowed.
ping_healthchecks(base, event, message, ok) ==
    /\ sent' = [base EXCEPT ![event] = @ + 1]
    /\ last_ping' = [event |-> event,
                     url   |-> IF event \in {"start", "fail"} THEN "/" \o event ELSE "",
                     body  |-> message]
    /\ ping_failed' = ~ok

\* raise e, out of main's try block.
Raise(e) ==
    /\ pc' = "except"
    /\ exc' = e

\* Mutant of StartCycle: a new session is made at the top of every cycle.
StartCycleNewSession ==
    /\ pc = "loop"
    /\ \E ok \in BOOLEAN : ping_healthchecks(ZeroSent, "start", "", ok)
    /\ pc' = "gluetun_port"
    /\ loc' = InitLoc
    /\ rpc' = NoFrame
    /\ fetched' = {}
    /\ exc' = NoExc
    /\ prev_outcome' = Outcome
    /\ tr_session' = None

\* Top of the while loop: the start ping and the reset of the default context.
StartCycle ==
    /\ pc = "loop"
    /\ \E ok \in BOOLEAN : ping_healthchecks(ZeroSent, "start", "", ok)
    /\ pc' = "gluetun_port"
    /\ loc' = InitLoc
    /\ rpc' = NoFrame
    /\ fetched' = {}
    /\ exc' = NoExc
    /\ prev_outcome' = Outcome
    /\ UNCHANGED tr_session

\* 1. Get Gluetun data: the port-forward GET.
GetGluetunPort ==
    /\ pc = "gluetun_port"
    /\ \E r \in GluetunPortResponses :
         IF r.failure # None
         THEN /\ Raise(RequestException(Val(r.failure)))
              /\ UNCHANGED <<loc, fetched>>
         ELSE IF RaisesForStatus(r.status)
         THEN /\ Raise(OtherError("HTTPError", HttpErrorText(r.status)))
              /\ UNCHANGED <<loc, fetched>>
         ELSE /\ pc' = "gluetun_vpn"
              /\ loc' = [loc EXCEPT !.gluetun_port = r.json.port]
              /\ fetched' = fetched \cup {"portforward"}
              /\ UNCHANGED exc
    /\ sent' = [sent EXCEPT !.gluetun = @ + 1]
    /\ ping_failed' = FALSE
    /\ UNCHANGED <<tr_session, rpc, prev_outcome, last_ping>>

\* Mutant of GluetunMissing: only the port is checked.
GluetunMissingPortOnly(gluetun_port, gluetun_vpn_status) == ~TruthyInt(gluetun_port)

\* not all([gluetun_port, gluetun_vpn_status])
GluetunMissing(gluetun_port, gluetun_vpn_status) ==
    ~(TruthyInt(gluetun_port) /\ TruthyStr(gluetun_vpn_status))

GluetunParseError ==
    HealthcheckError("E:GLUETUN_PARSE | Missing 'port' or 'status' in Gluetun API response",
                     None, None, None, None)

\* The VPN-status GET and the check of both Gluetun fields.
GetGluetunVpn ==
    /\ pc = "gluetun_vpn"
    /\ \E r \in GluetunVpnResponses :
         IF r.failure # None
         THEN /\ Raise(RequestException(Val(r.failure)))
              /\ UNCHANGED <<loc, fetched>>
         ELSE IF RaisesForStatus(r.status)
         THEN /\ Raise(OtherError("HTTPError", HttpErrorText(r.status)))
              /\ UNCHANGED <<loc, fetched>>
         ELSE /\ loc' = [loc EXCEPT !.gluetun_vpn_status = r.json.status]
              /\ fetched' = fetched \cup {"vpn"}
              /\ IF GluetunMissing(loc.gluetun_port, r.json.status)
                 THEN Raise(GluetunParseError)
                 ELSE pc' = "session-get" /\ UNCHANGED exc
    /\ sent' = [sent EXCEPT !.gluetun = @ + 1]
    /\ ping_failed' = FALSE
    /\ UNCHANGED <<tr_session, rpc, prev_outcome, last_ping>>

\* ------------------------------------------------- run_transmission_rpc

TrParseError ==
    HealthcheckError("E:TR_PARSE | Missing 'peer-port' in Transmission session data",
                     None, None, None, None)

\* transmission_port = session_data.get("arguments", {}).get("peer-port")
transmission_port(l) == l.session_data.peer_port

\* transmission_port is None
PeerPortMissing(port) == port = None

\* run_transmission_rpc returns `json` to main, which stores it; after the third
\* call main reads the peer port and checks it.
RpcReturn(method, json) ==
    /\ fetched' = fetched \cup {method}
    /\ CASE method = "session-get" ->
              /\ loc' = [loc EXCEPT !.session_data = json]
              /\ pc' = "session-stats"
              /\ UNCHANGED exc
         [] method = "session-stats" ->
              /\ loc' = [loc EXCEPT !.session_stats = json]
              /\ pc' = "torrent-get"
              /\ UNCHANGED exc
         [] OTHER ->
              /\ loc' = [loc EXCEPT !.torrents_data = json]
              /\ IF PeerPortMissing(transmission_port(loc))
                 THEN Raise(TrParseError)
                 ELSE pc' = "probe" /\ UNCHANGED exc

\* run_transmission_rpc raises e to main.
RpcRaise(e) ==
    /\ Raise(e)
    /\ UNCHANGED <<loc, fetched>>

\* Mutant of RpcHandshake: the header of the handshake response is put on the
\* session without a check.
RpcHandshakeUnchecked ==
    /\ pc \in RpcMethods
    /\ tr_session = None
    /\ \E r \in HandshakeResponses :
         LET f == [NewFrame(pc) EXCEPT !.gets = 1]
         IN  IF r.failure # None
             THEN /\ RpcRaise(OtherError("ConnectionError",
                        "Failed to connect to Transmission to get session ID: "
                        \o Val(r.failure).text))
                  /\ rpc' = [f EXCEPT !.outcome = "raised", !.cause = r.failure]
                  /\ UNCHANGED tr_session
             ELSE /\ tr_session' = r.header
                  /\ rpc' = [f EXCEPT !.updates = 1,
                                       !.handshake = Some([header |-> r.header])]
                  /\ UNCHANGED <<pc, exc, loc, fetched>>
    /\ sent' = [sent EXCEPT !.handshake = @ + 1, !.calls = @ + 1]
    /\ ping_failed' = FALSE
    /\ UNCHANGED <<prev_outcome, last_ping>>

\* Entry of a call with no token on the session: get_transmission_session_id.
RpcHandshake ==
    /\ pc \in RpcMethods
    /\ tr_session = None
    /\ \E r \in HandshakeResponses :
         LET f == [NewFrame(pc) EXCEPT !.gets = 1]
         IN  IF r.failure # None
             THEN /\ RpcRaise(OtherError("ConnectionError",
                        "Failed to connect to Transmission to get session ID: "
                        \o Val(r.failure).text))
                  /\ rpc' = [f EXCEPT !.outcome = "raised", !.cause = r.failure]
                  /\ UNCHANGED tr_session
             ELSE IF ~TruthyStr(r.header)
             THEN /\ RpcRaise(OtherError("ValueError",
                        "Could not retrieve Transmission Session ID."))
                  /\ rpc' = [f EXCEPT !.outcome = "raised",
                                       !.handshake = Some([header |-> r.header])]
                  /\ UNCHANGED tr_session
             ELSE /\ tr_session' = r.header
                  /\ rpc' = [f EXCEPT !.updates = 1,
                                       !.handshake = Some([header |-> r.header])]
                  /\ UNCHANGED <<pc, exc, loc, fetched>>
    /\ sent' = [sent EXCEPT !.handshake = @ + 1, !.calls = @ + 1]
    /\ ping_failed' = FALSE
    /\ UNCHANGED <<prev_outcome, last_ping>>

\* Mutant of RpcPost: the renewed token of a 409 is not put on the session.
RpcPostKeepsToken ==
    /\ pc \in RpcMethods
    /\ tr_session # None
    /\ CurFrame(pc).posts = 0
    /\ \E r \in RpcResponses(pc) :
         LET f == [CurFrame(pc) EXCEPT !.posts = 1,
                                       !.first = Some([status |-> r.status, header |-> r.header])]
         IN  IF r.failure # None
             THEN /\ RpcRaise(OtherError("ConnectionError",
                        "Transmission RPC call '" \o pc \o "' failed: " \o Val(r.failure).text))
                  /\ rpc' = [f EXCEPT !.first = None, !.outcome = "raised", !.cause = r.failure]
             ELSE IF r.status = 409
             THEN IF ~TruthyStr(r.header)
                  THEN /\ RpcRaise(OtherError("ValueError",
                             "Could not renew expired Transmission Session ID."))
                       /\ rpc' = [f EXCEPT !.outcome = "raised"]
                  ELSE /\ rpc' = f
                       /\ UNCHANGED <<pc, exc, loc, fetched>>
             ELSE IF RaisesForStatus(r.status)
             THEN /\ RpcRaise(OtherError("HTTPError", HttpErrorText(r.status)))
                  /\ rpc' = [f EXCEPT !.outcome = "raised"]
             ELSE /\ RpcReturn(pc, r.json)
                  /\ rpc' = [f EXCEPT !.outcome = "returned"]
    /\ sent' = [sent EXCEPT !.calls = @ + (1 - CurFrame(pc).gets)]
    /\ ping_failed' = FALSE
    /\ UNCHANGED <<tr_session, prev_outcome, last_ping>>

\* The first POST of a call and the handling of its answer.
RpcPost ==
    /\ pc \in RpcMethods
    /\ tr_session # None
    /\ CurFrame(pc).posts = 0
    /\ \E r \in RpcResponses(pc) :
         LET f == [CurFrame(pc) EXCEPT !.posts = 1,
                                       !.first = Some([status |-> r.status, header |-> r.header])]
         IN  IF r.failure # None
             THEN /\ RpcRaise(OtherError("ConnectionError",
                        "Transmission RPC call '" \o pc \o "' failed: " \o Val(r.failure).text))
                  /\ rpc' = [f EXCEPT !.first = None, !.outcome = "raised", !.cause = r.failure]
                  /\ UNCHANGED tr_session
             ELSE IF r.status = 409
             THEN IF ~TruthyStr(r.header)
                  THEN /\ RpcRaise(OtherError("ValueError",
                             "Could not renew expired Transmission Session ID."))
                       /\ rpc' = [f EXCEPT !.outcome = "raised"]
                       /\ UNCHANGED tr_session
                  ELSE /\ tr_session' = r.header
                       /\ rpc' = [f EXCEPT !.updates = @ + 1]
                       /\ UNCHANGED <<pc, exc, loc, fetched>>
             ELSE IF RaisesForStatus(r.status)
             THEN /\ RpcRaise(OtherError("HTTPError", HttpErrorText(r.status)))
                  /\ rpc' = [f EXCEPT !.outcome = "raised"]
                  /\ UNCHANGED tr_session
             ELSE /\ RpcReturn(pc, r.json)
                  /\ rpc' = [f EXCEPT !.outcome = "returned"]
                  /\ UNCHANGED tr_session
    /\ sent' = [sent EXCEPT !.calls = @ + (1 - CurFrame(pc).gets)]
    /\ ping_failed' = FALSE
    /\ UNCHANGED <<prev_outcome, last_ping>>

\* Mutant of RpcRetry: a 409 on the retry renews the token and retries again.
RpcRetryLoop ==
    /\ pc \in RpcMethods
    /\ rpc.method = pc
    /\ rpc.outcome = "running"
    /\ rpc.posts \in {1, 2}
    /\ \E r \in RpcResponses(pc) :
         LET f == [rpc EXCEPT !.posts = @ + 1,
                              !.retry = Some([status |-> r.status, json |-> r.json])]
         IN  IF r.failure # None
             THEN /\ RpcRaise(RequestException(Val(r.failure)))
                  /\ rpc' = [f EXCEPT !.retry = None, !.outcome = "raised", !.cause = r.failure]
                  /\ UNCHANGED tr_session
             ELSE IF r.status = 409 /\ TruthyStr(r.header) /\ rpc.posts = 1
             THEN /\ tr_session' = r.header
                  /\ rpc' = [f EXCEPT !.updates = @ + 1]
                  /\ UNCHANGED <<pc, exc, loc, fetched>>
             ELSE IF RaisesForStatus(r.status)
             THEN /\ RpcRaise(OtherError("HTTPError", HttpErrorText(r.status)))
                  /\ rpc' = [f EXCEPT !.outcome = "raised"]
                  /\ UNCHANGED tr_session
             ELSE /\ RpcReturn(pc, r.json)
                  /\ rpc' = [f EXCEPT !.outcome = "returned"]
                  /\ UNCHANGED tr_session
    /\ ping_failed' = FALSE
    /\ UNCHANGED <<sent, prev_outcome, last_ping>>

\* The retry POST after a 409 that carried a renewed token.
RpcRetry ==
    /\ pc \in RpcMethods
    /\ rpc.method = pc
    /\ rpc.outcome = "running"
    /\ rpc.posts = 1
    /\ \E r \in RpcResponses(pc) :
         LET f == [rpc EXCEPT !.posts = 2,
                              !.retry = Some([status |-> r.status, json |-> r.json])]
         IN  IF r.failure # None
             THEN /\ RpcRaise(RequestException(Val(r.failure)))
                  /\ rpc' = [f EXCEPT !.retry = None, !.outcome = "raised", !.cause = r.failure]
             ELSE IF RaisesForStatus(r.status)
             THEN /\ RpcRaise(OtherError("HTTPError", HttpErrorText(r.status)))
                  /\ rpc' = [f EXCEPT !.outcome = "raised"]
             ELSE /\ RpcReturn(pc, r.json)
                  /\ rpc' = [f EXCEPT !.outcome = "returned"]
    /\ ping_failed' = FALSE
    /\ UNCHANGED <<tr_session, sent, prev_outcome, last_ping>>

\* ---------------------------------------------------- check_external_port

\* Mutant of check_external_port: a boolean prober, anything but "1" is closed.
check_external_port_boolean(r) ==
    IF r.failure = None /\ ~RaisesForStatus(r.status) /\ Strip(r.text) = "1"
    THEN [status |-> Some(TRUE), error |-> None]
    ELSE [status |-> Some(FALSE), error |-> None]

\* The (status, error) pair check_external_port returns for an answer of the
\* port-check service.
check_external_port(r) ==
    IF r.failure # None
    THEN [status |-> None,
          error  |-> Some([error     |-> "E:PORTCHECK_DOWN",
                           content   |-> None,
                           exception |-> Some(Val(r.failure).name)])]
    ELSE IF RaisesForStatus(r.status)
    THEN [status |-> None,
          error  |-> Some([error     |-> "E:PORTCHECK_DOWN",
                           content   |-> None,
                           exception |-> Some("HTTPError")])]
    ELSE LET content == Strip(r.text)
         IN  IF content = "1" THEN [status |-> Some(TRUE), error |-> None]
             ELSE IF content = "0" THEN [status |-> Some(FALSE), error |-> None]
             ELSE [status |-> None,
                   error  |-> Some([error     |-> "E:PORTCHECK_UNEXPECTED_RESP",
                                    content   |-> Some(content),
                                    exception |-> None])]

\* ------------------------------------------------------------------- main

\* Mutant of system_error_torrents: every torrent with a nonzero error code is
\* kept.
system_error_torrents_nonzero(torrents) ==
    SelectSeq(torrents, LAMBDA t : t.error # 0)

\* [t for t in torrents if t.get("error") == 3]
system_error_torrents(torrents) ==
    SelectSeq(torrents, LAMBDA t : t.error = SystemErrorCode)

\* Mutant of port_status_str: a probe without a result is shown as unknown.
port_status_str_tristate(port_status_bool) ==
    IF port_status_bool = Some(TRUE) THEN "OPEN"
    ELSE IF port_status_bool = Some(FALSE) THEN "CLOSED"
    ELSE "UNKNOWN"

\* "OPEN" if port_status_bool else "CLOSED"
port_status_str(port_status_bool) ==
    IF port_status_bool = Some(TRUE) THEN "OPEN" ELSE "CLOSED"

diagnostic_context(port, status_bool, vpn_status, stats) ==
    "P:" \o FmtInt(port) \o "(" \o port_status_str(status_bool) \o ") VPN:"
    \o FmtStr(vpn_status)
    \o " | DL/UL:" \o FmtOrNA(stats.downloadSpeed) \o "/" \o FmtOrNA(stats.uploadSpeed)
    \o " | Act:" \o FmtOrNA(stats.activeTorrentCount)

\* Mutant of Checks: the port-mismatch check is left out.
ChecksNoMismatch(gluetun_port, tr_port, port_status_bool, port_check_error, sys_errs, ctx) ==
    IF port_check_error # None
    THEN HealthcheckError(Val(port_check_error).error, Some(ctx), None, None, port_check_error)
    ELSE IF port_status_bool # Some(TRUE)
    THEN HealthcheckError("E:CLOSED", Some(ctx), None, None, None)
    ELSE IF Len(sys_errs) > 0
    THEN HealthcheckError("E:SYS_ERR", Some(ctx), Some(sys_errs[1]), None, None)
    ELSE NoExc

\* Mutant of Checks: the system-error check runs before the mismatch check.
ChecksSysErrFirst(gluetun_port, tr_port, port_status_bool, port_check_error, sys_errs, ctx) ==
    IF port_check_error # None
    THEN HealthcheckError(Val(port_check_error).error, Some(ctx), None, None, port_check_error)
    ELSE IF Len(sys_errs) > 0
    THEN HealthcheckError("E:SYS_ERR", Some(ctx), Some(sys_errs[1]), None, None)
    ELSE IF gluetun_port # tr_port
    THEN HealthcheckError("E:MISMATCH", Some(ctx), None,
                          Some([gluetun |-> gluetun_port, transmission |-> tr_port]), None)
    ELSE IF port_status_bool # Some(TRUE)
    THEN HealthcheckError("E:CLOSED", Some(ctx), None, None, None)
    ELSE NoExc

\* 4. The checks after the probe, in the order of the code: the exception the
\* first failing check raises, or NoExc.
Checks(gluetun_port, tr_port, port_status_bool, port_check_error, sys_errs, ctx) ==
    IF port_check_error # None
    THEN HealthcheckError(Val(port_check_error).error, Some(ctx), None, None, port_check_error)
    ELSE IF gluetun_port # tr_port
    THEN HealthcheckError("E:MISMATCH", Some(ctx), None,
                          Some([gluetun |-> gluetun_port, transmission |-> tr_port]), None)
    ELSE IF port_status_bool # Some(TRUE)
    THEN HealthcheckError("E:CLOSED", Some(ctx), None, None, None)
    ELSE IF Len(sys_errs) > 0
    THEN HealthcheckError("E:SYS_ERR", Some(ctx), Some(sys_errs[1]), None, None)
    ELSE NoExc

\* 3. and 4.: the external probe, the context summary and the checks.
CheckPort ==
    /\ pc = "probe"
    /\ \E r \in ProbeResponses :
         LET res  == check_external_port(r)
             ctx  == diagnostic_context(transmission_port(loc), res.status,
                                        loc.gluetun_vpn_status, loc.session_stats)
             e    == Checks(loc.gluetun_port, transmission_port(loc), res.status, res.error,
                            system_error_torrents(loc.torrents_data.torrents), ctx)
         IN  /\ loc' = [loc EXCEPT !.probe_response = r,
                                   !.port_status_bool = res.status,
                                   !.port_check_error = res.error,
                                   !.diagnostic_context = ctx]
             /\ IF e.type = "none"
                THEN pc' = "success" /\ UNCHANGED exc
                ELSE Raise(e)
    /\ sent' = [sent EXCEPT !.probe = @ + 1]
    /\ fetched' = fetched \cup {"probe"}
    /\ rpc' = NoFrame
    /\ ping_failed' = FALSE
    /\ UNCHANGED <<tr_session, prev_outcome, last_ping>>

\* Mutant of PingSuccess: a success ping that cannot be delivered raises inside
\* the try block.
PingSuccessEscalates ==
    /\ pc = "success"
    /\ \E ok \in BOOLEAN :
         /\ ping_healthchecks(sent, "success", "OK | " \o loc.diagnostic_context, ok)
         /\ IF ok
            THEN pc' = "finally" /\ UNCHANGED exc
            ELSE Raise(RequestException([name |-> "ConnectionError",
                                         text |-> "Connection refused"]))
    /\ UNCHANGED <<tr_session, loc, rpc, fetched, prev_outcome>>

\* 5. Success: the success ping.
PingSuccess ==
    /\ pc = "success"
    /\ \E ok \in BOOLEAN :
         ping_healthchecks(sent, "success", "OK | " \o loc.diagnostic_context, ok)
    /\ pc' = "finally"
    /\ UNCHANGED <<tr_session, loc, rpc, fetched, exc, prev_outcome>>

\* Mutant of ExceptHealthcheckError: the session is kept after the failure.
ExceptHealthcheckErrorKeepsSession ==
    /\ pc = "except"
    /\ exc.type = "HealthcheckError"
    /\ \E ok \in BOOLEAN : ping_healthchecks(sent, "fail", hc_message(exc), ok)
    /\ pc' = "finally"
    /\ UNCHANGED <<tr_session, loc, rpc, fetched, exc, prev_outcome>>

\* except HealthcheckError: the fail ping with hc_message, and a new session.
ExceptHealthcheckError ==
    /\ pc = "except"
    /\ exc.type = "HealthcheckError"
    /\ \E ok \in BOOLEAN : ping_healthchecks(sent, "fail", hc_message(exc), ok)
    /\ tr_session' = None
    /\ pc' = "finally"
    /\ UNCHANGED <<loc, rpc, fetched, exc, prev_outcome>>

\* Mutant of ExceptException: the exception is logged and no ping is sent.
ExceptExceptionSilent ==
    /\ pc = "except"
    /\ exc.type \notin {"HealthcheckError", "none"}
    /\ tr_session' = None
    /\ pc' = "finally"
    /\ ping_failed' = FALSE
    /\ UNCHANGED <<loc, rpc, sent, fetched, exc, prev_outcome, last_ping>>

\* except Exception: the fail ping with str(e)[:100], and a new session.
ExceptException ==
    /\ pc = "except"
    /\ exc.type \notin {"HealthcheckError", "none"}
    /\ \E ok \in BOOLEAN : ping_healthchecks(sent, "fail", Slice(exc.message, HcLimit), ok)
    /\ tr_session' = None
    /\ pc' = "finally"
    /\ UNCHANGED <<loc, rpc, fetched, exc, prev_outcome>>

\* Mutant of Finally: an exception that is no HealthcheckError is not caught and
\* leaves main after the finally block.
FinallyReraise ==
    /\ pc = "finally"
    /\ pc' = IF exc.type \in {"none", "HealthcheckError"} THEN "loop" ELSE "crashed"
    /\ ping_failed' = FALSE
    /\ UNCHANGED <<tr_session, loc, rpc, sent, fetched, exc, prev_outcome, last_ping>>

\* finally: the log line and the sleep, back to the top of the loop.
Finally ==
    /\ pc = "finally"
    /\ pc' = "loop"
    /\ ping_failed' = FALSE
    /\ UNCHANGED <<tr_session, loc, rpc, sent, fetched, exc, prev_outcome, last_ping>>

Next ==
    \/ StartCycle
    \/ GetGluetunPort
    \/ GetGluetunVpn
    \/ RpcHandshake
    \/ RpcPost
    \/ RpcRetry
    \/ CheckPort
    \/ PingSuccess
    \/ ExceptHealthcheckError
    \/ ExceptException
    \/ Finally

Spec == Init /\ [][Next]_vars

\* Every call of the loop has a timeout and the sleep is finite, so a step that
\* is possible is eventually taken.
FairSpec == Spec /\ WF_vars(Next)

\* --------------------------------------------- the renderer on any error

RECURSIVE Pad(_)
Pad(n) == IF n = 0 THEN "" ELSE "x" \o Pad(n - 1)

CodePool == {"E:SYS_ERR", Pad(90), Pad(91), Pad(MaxStrLen)}

ContextPool ==
    {None, Some(""), Some("P:51413(OPEN) VPN:running | DL/UL:1000/500 | Act:2"),
     Some(Pad(MaxStrLen))}

PlainErrors ==
    {HealthcheckError(c, d, None, None, None) :
        c \in CodePool \cup {"E:CLOSED", GluetunParseError.message}, d \in ContextPool}

TorrentErrors ==
    {HealthcheckError(c, d,
                      Some([id |-> 42, name |-> Pad(n), error |-> SystemErrorCode,
                            errorString |-> Pad(k)]),
                      None, None) :
        c \in CodePool, d \in ContextPool \ {None, Some("")},
        n \in 0..MaxStrLen, k \in {0, 3, 50}}

MismatchErrors ==
    {HealthcheckError(c, d, None, Some([gluetun |-> g, transmission |-> t]), None) :
        c \in {"E:MISMATCH", Pad(MaxStrLen)}, d \in ContextPool,
        g \in {Some(1), Some(51413)}, t \in {Some(60000), Some(65535)}}

PortcheckErrors ==
    {HealthcheckError("E:PORTCHECK_UNEXPECTED_RESP", d, None, None,
                      Some([error |-> "E:PORTCHECK_UNEXPECTED_RESP",
                            content |-> Some(Pad(n)), exception |-> None])) :
        d \in ContextPool, n \in {0, 6, 70, MaxStrLen}}
    \cup
    {HealthcheckError("E:PORTCHECK_DOWN", d, None, None,
                      Some([error |-> "E:PORTCHECK_DOWN",
                            content |-> None, exception |-> Some(x)])) :
        d \in ContextPool, x \in {"ReadTimeout", "HTTPError"}}

OtherErrors ==
    {OtherError(t, Pad(n)) : t \in {"ConnectionError", "ValueError"}, n \in 0..MaxStrLen}

ErrorPool ==
    PlainErrors \cup TorrentErrors \cup MismatchErrors \cup PortcheckErrors \cup OtherErrors

\* Any exception at the cycle boundary, with or without a token on the session.
InitMsg ==
    /\ pc = "except"
    /\ exc \in ErrorPool
    /\ tr_session \in Headers
    /\ loc = InitLoc
    /\ rpc = NoFrame
    /\ sent = [ZeroSent EXCEPT !.start = 1]
    /\ fetched = {}
    /\ prev_outcome = "none"
    /\ last_ping = [event |-> "start", url |-> "/start", body |-> ""]
    /\ ping_failed = FALSE

NextMsg ==
    \/ ExceptHealthcheckError
    \/ ExceptException
    \/ Finally

SpecMsg == InitMsg /\ [][NextMsg]_vars

\* ----------------------------------------------------------------- claims

AllFetches == {"portforward", "vpn", "probe"} \cup RpcMethods

\* The cycle is over: the terminal ping is out and the loop is at its sleep or
\* back at its top.
CycleEnded == pc \in {"finally", "loop"} /\ sent.start = 1

\* The tri-state result of the probe of this cycle.
ProbeOpen == "probe" \in fetched /\ loc.port_status_bool = Some(TRUE)

ProbeClosed == "probe" \in fetched /\ loc.port_status_bool = Some(FALSE)

ProbeIndeterminate == "probe" \in fetched /\ loc.port_status_bool = None

HasSystemErrorTorrent ==
    \E i \in DOMAIN loc.torrents_data.torrents :
        loc.torrents_data.torrents[i].error = SystemErrorCode

\* What the cycle reported: "OK" with the success ping, the code of the
\* HealthcheckError with a fail ping, "UNCLASSIFIED" for any other exception.
Reported ==
    IF sent.success > 0 THEN "OK"
    ELSE IF sent.fail = 0 THEN "NOTHING"
    ELSE IF exc.type = "HealthcheckError" THEN exc.message
    ELSE "UNCLASSIFIED"

SuccessConditions ==
    /\ fetched = AllFetches
    /\ loc.gluetun_port # None
    /\ loc.gluetun_vpn_status # None
    /\ transmission_port(loc) # None
    /\ ProbeOpen
    /\ loc.gluetun_port = transmission_port(loc)
    /\ ~HasSystemErrorTorrent

\* C1: a success ping is sent in a cycle only if every fetch of the cycle
\* succeeded, the gateway port and VPN status and the daemon peer port were
\* present, the probe returned Open, the two ports are equal and no torrent
\* has error code 3; and a cycle in which all of these hold ends with the
\* success ping and no fail ping.
C1_SuccessIffAllChecksPass ==
    /\ sent.success > 0 => SuccessConditions
    /\ CycleEnded /\ SuccessConditions => sent.success = 1 /\ sent.fail = 0

C1_Witness ==
    /\ pc = "finally"
    /\ sent.success = 1
    /\ loc.gluetun_port = Some(51413)
    /\ Len(loc.torrents_data.torrents) = MaxTorrents

\* C2: when all fetches succeeded and both ports are present, the outcome is
\* decided by the first condition that holds, in the order: probe
\* Indeterminate, port mismatch, probe Closed, system-error torrent, success.
C2_PriorityOrder ==
    CycleEnded /\ fetched = AllFetches =>
        Reported =
            IF ProbeIndeterminate THEN Val(loc.port_check_error).error
            ELSE IF loc.gluetun_port # transmission_port(loc) THEN "E:MISMATCH"
            ELSE IF ProbeClosed THEN "E:CLOSED"
            ELSE IF HasSystemErrorTorrent THEN "E:SYS_ERR"
            ELSE "OK"

C2_Witness ==
    /\ CycleEnded
    /\ fetched = AllFetches
    /\ ~ProbeIndeterminate
    /\ loc.gluetun_port # transmission_port(loc)
    /\ HasSystemErrorTorrent
    /\ Reported = "E:MISMATCH"
    /\ last_ping.event = "fail"

\* The answer of the port-check service was read as a body (no transport
\* failure, no error status).
ProbeBodyRead ==
    /\ "probe" \in fetched
    /\ loc.probe_response.failure = None
    /\ ~RaisesForStatus(loc.probe_response.status)

ProbeErrorCode == Val(loc.port_check_error).error

\* An Indeterminate probe is reported as the PortCheckFailure of its kind.
IndeterminateReported ==
    CycleEnded /\ ProbeIndeterminate =>
        /\ loc.port_check_error # None
        /\ Reported = ProbeErrorCode
        /\ Reported \in {"E:PORTCHECK_DOWN", "E:PORTCHECK_UNEXPECTED_RESP"}
        /\ exc.portcheck_error = loc.port_check_error
        /\ sent.success = 0

\* C3 as stated: body "1" is Open, body "0" is Closed, any other body is
\* Indeterminate(unexpected-response), a transport failure is
\* Indeterminate(service-down), and an Indeterminate probe is reported as the
\* PortCheckFailure, never as E:CLOSED.
C3_Original ==
    /\ ProbeBodyRead =>
         LET body == loc.probe_response.text
         IN  /\ body = "1" => ProbeOpen
             /\ body = "0" => ProbeClosed
             /\ body \notin {"1", "0"} =>
                  ProbeIndeterminate /\ ProbeErrorCode = "E:PORTCHECK_UNEXPECTED_RESP"
    /\ "probe" \in fetched /\ ~ProbeBodyRead =>
         ProbeIndeterminate /\ ProbeErrorCode = "E:PORTCHECK_DOWN"
    /\ IndeterminateReported

\* C3 (amended): the body is compared after its leading and trailing
\* whitespace is stripped: a body that strips to "1" is Open, one that strips
\* to "0" is Closed, any other body is Indeterminate(unexpected-response); a
\* transport failure is Indeterminate(service-down); an Indeterminate probe is
\* reported as the PortCheckFailure of its kind, never as E:CLOSED.
C3_TriState ==
    /\ ProbeBodyRead =>
         LET body == Strip(loc.probe_response.text)
         IN  /\ body = "1" => ProbeOpen
             /\ body = "0" => ProbeClosed
             /\ body \notin {"1", "0"} =>
                  /\ ProbeIndeterminate
                  /\ ProbeErrorCode = "E:PORTCHECK_UNEXPECTED_RESP"
                  /\ Val(loc.port_check_error).content = Some(body)
    /\ "probe" \in fetched /\ ~ProbeBodyRead =>
         ProbeIndeterminate /\ ProbeErrorCode = "E:PORTCHECK_DOWN"
    /\ IndeterminateReported

C3_Witness ==
    /\ CycleEnded
    /\ ProbeBodyRead
    /\ loc.probe_response.text = "banana"
    /\ Reported = "E:PORTCHECK_UNEXPECTED_RESP"
    /\ loc.gluetun_port # transmission_port(loc)

\* C4: the body of every fail ping is at most 100 characters long, for every
\* HealthcheckError whatever its code, context, torrent, mismatch ports or
\* port-check detail, and for every other exception.
C4_FailBodyBounded ==
    last_ping.event = "fail" => Len(last_ping.body) <= HcLimit

C4_Witness ==
    /\ last_ping.event = "fail"
    /\ exc.type = "HealthcheckError"
    /\ exc.torrent # None
    /\ Len(exc.message \o TorrentIdName(exc)) > HcLimit
    /\ Len(last_ping.body) = HcLimit

\* C5: every cycle issues exactly one start ping, before any fetch, and then
\* exactly one terminal ping, the success ping or a fail ping, never both and
\* never neither, before its sleep begins; the terminal ping is the last
\* request of the cycle.
C5_OneStartOneTerminalPing ==
    /\ sent.start <= 1
    /\ sent.success + sent.fail <= 1
    /\ pc # "loop" => sent.start = 1
    /\ pc = "gluetun_port" => sent = [ZeroSent EXCEPT !.start = 1]
    /\ sent.gluetun + sent.handshake + sent.calls + sent.probe > 0 => sent.start = 1
    /\ pc = "finally" \/ CycleEnded => sent.success + sent.fail = 1
    /\ sent.success + sent.fail = 1 => pc \in {"finally", "loop"}

C5_Witness ==
    /\ pc = "finally"
    /\ sent.start = 1
    /\ sent.fail = 1
    /\ sent.success = 0
    /\ exc.type = "ConnectionError"
    /\ sent.calls = 2

\* C6: no cycle outcome ends the loop: after any cycle (success, a
\* HealthcheckError, any other exception) the process sleeps and, under
\* fairness, a new start ping follows.
C6_LoopNeverEnds ==
    /\ [][pc = "finally" => pc' = "loop"]_vars
    /\ [][pc = "loop" =>
            pc' = "gluetun_port" /\ last_ping'.event = "start" /\ prev_outcome' = Outcome]_vars
    /\ (pc = "finally") ~> (pc = "gluetun_port" /\ last_ping.event = "start")

C6_Witness ==
    /\ pc = "gluetun_port"
    /\ prev_outcome = "fail"
    /\ last_ping.event = "start"

\* C7: one run_transmission_rpc call issues at most two POSTs, the second only
\* after a 409 that carried a renewed token; a 409 on the retry fails the call
\* with the HTTP error and no further request, and another error status on
\* the first POST fails it with the HTTP error and no retry.
C7_AtMostTwoPosts ==
    /\ rpc.posts <= 2
    /\ rpc.posts = 2 =>
         /\ rpc.first # None
         /\ Val(rpc.first).status = 409
         /\ Val(rpc.first).header # None
    /\ rpc.retry # None /\ Val(rpc.retry).status = 409 =>
         rpc.outcome = "raised" /\ rpc.posts = 2 /\ exc.type = "HTTPError"
    /\ rpc.first # None /\ Val(rpc.first).status \notin {200, 409} =>
         rpc.outcome = "raised" /\ rpc.posts = 1 /\ exc.type = "HTTPError"

C7_Witness ==
    /\ rpc.posts = 2
    /\ rpc.retry # None
    /\ Val(rpc.retry).status = 409
    /\ rpc.outcome = "raised"
    /\ pc = "finally"

\* A call whose first POST was answered 409 with a token and whose retry was
\* answered 2xx has returned, and no except handler has run since.
Renewed == rpc.outcome = "returned" /\ rpc.posts = 2 /\ pc \notin {"finally", "loop"}

\* What main received from the latest call.
ReturnedJson ==
    CASE rpc.method = "session-get" -> loc.session_data
      [] rpc.method = "session-stats" -> loc.session_stats
      [] OTHER -> loc.torrents_data

\* C8 as stated: such a call returns the retry's JSON, and during the call the
\* session token is updated exactly once, to the token of the 409.
C8_Original ==
    Renewed =>
        /\ ReturnedJson = Val(rpc.retry).json
        /\ rpc.updates = 1
        /\ tr_session = Val(rpc.first).header

\* C8 (amended): such a call returns the retry's JSON; the renewal updates the
\* session token exactly once, to the token of the 409, on top of the one
\* update of the handshake when the call began without a token; the token
\* stays on the session for the calls that follow.
C8_RenewalTransparent ==
    /\ Renewed =>
         /\ ReturnedJson = Val(rpc.retry).json
         /\ rpc.updates = 1 + rpc.gets
         /\ tr_session = Val(rpc.first).header
    /\ pc \in RpcMethods /\ rpc.outcome = "returned" => tr_session # None

C8_Witness ==
    /\ Renewed
    /\ rpc.method = "session-stats"
    /\ rpc.gets = 0
    /\ tr_session = Some("t2")
    /\ pc = "torrent-get"

\* C9: after a cycle that ends in failure the daemon session and its token
\* are replaced by a fresh session before the next cycle, whose first RPC call
\* starts without a token and performs the handshake.
C9_SessionResetAfterFailure ==
    /\ pc \in {"finally", "loop"} /\ sent.fail > 0 => tr_session = None
    /\ prev_outcome = "fail" /\ sent.calls = 0 => tr_session = None
    /\ prev_outcome = "fail" /\ sent.calls >= 1 => sent.handshake = 1

C9_Witness ==
    /\ prev_outcome = "fail"
    /\ pc = "session-stats"
    /\ sent.handshake = 1
    /\ tr_session # None

GluetunFieldLacking ==
    \/ "portforward" \in fetched /\ loc.gluetun_port = None
    \/ "vpn" \in fetched /\ loc.gluetun_vpn_status = None

PeerPortLacking == "session-get" \in fetched /\ transmission_port(loc) = None

NoDaemonRequest == sent.calls = 0 /\ sent.handshake = 0 /\ rpc.method = "none"

\* C10 as stated: a gateway response without the port or the status makes the
\* cycle fail with E:GLUETUN_PARSE, with no RPC request and no probe; session
\* data without the peer port makes it fail with E:TR_PARSE, with no probe.
C10_Original ==
    CycleEnded =>
        /\ GluetunFieldLacking =>
             Reported = GluetunParseError.message /\ NoDaemonRequest /\ sent.probe = 0
        /\ PeerPortLacking =>
             Reported = TrParseError.message /\ sent.probe = 0

\* C10 (amended): a gateway response without the port or the status is never
\* followed by an RPC request or a probe in that cycle, and when both gateway
\* fetches returned the cycle fails with E:GLUETUN_PARSE; session data without
\* the peer port is never followed by a probe, and when all three RPC calls
\* returned the cycle fails with E:TR_PARSE.
C10_ParseChecksAbort ==
    /\ GluetunFieldLacking => NoDaemonRequest /\ sent.probe = 0
    /\ PeerPortLacking => sent.probe = 0 /\ "probe" \notin fetched
    /\ CycleEnded /\ GluetunFieldLacking /\ {"portforward", "vpn"} \subseteq fetched =>
         Reported = GluetunParseError.message
    /\ CycleEnded /\ PeerPortLacking /\ RpcMethods \subseteq fetched =>
         Reported = TrParseError.message

C10_Witness ==
    /\ CycleEnded
    /\ PeerPortLacking
    /\ RpcMethods \subseteq fetched
    /\ Reported = TrParseError.message
    /\ sent.probe = 0

\* sub in s
Contains(s, sub) ==
    \E i \in 1..(Len(s) - Len(sub) + 1) : SubSeq(s, i, i + Len(sub) - 1) = sub

\* A request of the latest run_transmission_rpc call failed at transport
\* level, and the call has raised.
RpcTransportFailure == rpc.cause # None /\ rpc.outcome = "raised"

\* C11: every transport failure during an RPC call, on the handshake GET, on
\* the first POST or on the retry POST after a 409, leaves
\* run_transmission_rpc as the builtin ConnectionError whose text carries the
\* method name and the text of the underlying failure.
C11_Original ==
    RpcTransportFailure =>
        /\ exc.type = "ConnectionError"
        /\ Contains(exc.message, rpc.method)
        /\ Contains(exc.message, Val(rpc.cause).text)

\* The retry POST of a call failed at transport level and the failure reached
\* main as the requests exception itself.
C11_Witness ==
    /\ RpcTransportFailure
    /\ rpc.posts = 2
    /\ rpc.method = "session-stats"
    /\ exc = RequestException(Val(rpc.cause))
    /\ pc = "finally"

\* The exception of the cycle is none of PortCheckFailure, PortMismatch and
\* SystemErrorTorrent, its full message is over the limit, and its fail ping
\* is out.
PlainOverLimit ==
    /\ last_ping.event = "fail"
    /\ exc.portcheck_error = None
    /\ exc.mismatch_ports = None
    /\ exc.torrent = None
    /\ Len(full_message(exc)) > HcLimit

\* C12 as stated: for every such failure, a HealthcheckError or any other
\* exception, the fail ping carries the first 97 characters of the full
\* message followed by "...".
C12_Original ==
    PlainOverLimit =>
        last_ping.body = SubSeq(full_message(exc), 1, EllipsisCut) \o "..."

\* C12 (amended): for a HealthcheckError of that kind (ParseError, PortClosed)
\* the fail ping carries the first 97 characters of the full message followed
\* by "..."; for any other exception it carries the first 100 characters of
\* the exception's text, with no ellipsis.
C12_GenericTruncation ==
    PlainOverLimit =>
        IF exc.type = "HealthcheckError"
        THEN last_ping.body = SubSeq(full_message(exc), 1, EllipsisCut) \o "..."
        ELSE last_ping.body = SubSeq(exc.message, 1, HcLimit)

C12_Witness ==
    /\ PlainOverLimit
    /\ exc.type = "HealthcheckError"
    /\ exc.message = "E:CLOSED"
    /\ TruthyStr(exc.diag_context)
    /\ Len(last_ping.body) = HcLimit
    /\ SubSeq(last_ping.body, EllipsisCut + 1, HcLimit) = "..."

\* The message main hands to the fail ping for the exception of the cycle.
FailBody ==
    IF exc.type = "HealthcheckError" THEN hc_message(exc) ELSE Slice(exc.message, HcLimit)

\* C13: a ping that cannot be delivered changes nothing but the log. After a
\* failed start ping the cycle goes on to the gateway fetch with the session
\* untouched; after a failed success ping the cycle is at its sleep with no
\* exception, no fail ping and the session kept; after a failed fail ping the
\* cycle is at its sleep with the same exception and that one fail ping; the
\* sleep that follows a failed ping leads back to the top of the loop with no
\* further request.
C13_PingFailureSwallowed ==
    /\ [][ping_failed' /\ pc = "loop" =>
            /\ pc' = "gluetun_port"
            /\ tr_session' = tr_session
            /\ exc' = NoExc
            /\ sent' = [ZeroSent EXCEPT !.start = 1]]_vars
    /\ [][ping_failed' /\ pc = "success" =>
            /\ pc' = "finally"
            /\ tr_session' = tr_session /\ tr_session' # None
            /\ exc' = NoExc /\ exc = NoExc
            /\ sent' = [sent EXCEPT !.success = 1]
            /\ sent'.fail = 0
            /\ loc' = loc]_vars
    /\ [][ping_failed' /\ pc = "except" =>
            /\ pc' = "finally"
            /\ exc' = exc
            /\ last_ping'.body = FailBody
            /\ sent' = [sent EXCEPT !.fail = 1]
            /\ sent'.success = 0
            /\ loc' = loc]_vars
    /\ [][ping_failed /\ pc = "finally" =>
            /\ pc' = "loop"
            /\ sent' = sent
            /\ tr_session' = tr_session
            /\ exc' = exc]_vars
    /\ [][ping_failed /\ pc = "gluetun_port" =>
            /\ sent' = [sent EXCEPT !.gluetun = 1]
            /\ tr_session' = tr_session]_vars

C13_Witness ==
    /\ ping_failed
    /\ last_ping.event = "success"
    /\ pc = "finally"
    /\ sent.fail = 0
    /\ tr_session # None
    /\ exc = NoExc

\* C14: whenever the full message of the failure is at most 100 characters
\* long, the fail ping carries the full message unchanged, for a
\* HealthcheckError of any variant (context suffix included) and for any
\* other exception.
C14_ShortMessageUnchanged ==
    last_ping.event = "fail" /\ Len(full_message(exc)) <= HcLimit =>
        last_ping.body = full_message(exc)

C14_Witness ==
    /\ last_ping.event = "fail"
    /\ exc.torrent # None
    /\ TruthyStr(exc.diag_context)
    /\ Len(full_message(exc)) = HcLimit
    /\ last_ping.body = full_message(exc)

\* "{code} T:{id}({name}): {errorString}"
TorrentRendering(e) == e.message \o TorrentIdName(e) \o ": " \o Val(e.torrent).errorString

\* The fail ping of a SystemErrorTorrent failure whose full message and whose
\* rendering without the context are both over the limit.
TorrentOverLimit ==
    /\ last_ping.event = "fail"
    /\ exc.type = "HealthcheckError"
    /\ exc.torrent # None
    /\ exc.portcheck_error = None
    /\ exc.mismatch_ports = None
    /\ Len(full_message(exc)) > HcLimit
    /\ Len(TorrentRendering(exc)) > HcLimit

\* C15: for such a failure, if the prefix code + " T:id(name)" leaves more
\* than 4 characters the body is the whole prefix, the start of
\* ": errorString" and "...", 100 characters in all; otherwise, if the reduced
\* prefix code + " T:id" leaves more than 4 characters, the body is the
\* reduced prefix, the start of ": errorString" that fits and "..."; otherwise
\* the body is the first 100 characters of the reduced prefix. Whenever the
\* reduced prefix fits in 100 characters the body contains "T:id".
C15_TorrentTruncation ==
    TorrentOverLimit =>
        LET body    == last_ping.body
            prefix  == exc.message \o TorrentIdName(exc)
            reduced == exc.message \o TorrentIdOnly(exc)
            tail    == ": " \o Val(exc.torrent).errorString
            room    == HcLimit - Len(prefix)
            room2   == HcLimit - Len(reduced)
        IN  /\ IF room > 4
               THEN /\ body = prefix \o SubSeq(tail, 1, room - 3) \o "..."
                    /\ Len(body) = HcLimit
               ELSE IF room2 > 4
               THEN /\ body = reduced \o SubSeq(tail, 1, Min(Len(tail), room2 - 3)) \o "..."
                    /\ Len(body) <= HcLimit
                    /\ ~Contains(body, "(")
               ELSE body = SubSeq(reduced, 1, Min(Len(reduced), HcLimit))
            /\ Len(reduced) <= HcLimit =>
                 Contains(body, "T:" \o ToString(Val(exc.torrent).id))

\* Torrent 42 with a 90-character name and a 50-character error string: the
\* name is dropped, the whole error string fits and "..." follows it.
C15_Witness ==
    /\ TorrentOverLimit
    /\ exc.message = "E:SYS_ERR"
    /\ Val(exc.torrent).id = 42
    /\ Len(Val(exc.torrent).name) = 90
    /\ Len(Val(exc.torrent).errorString) = 50
    /\ last_ping.body = "E:SYS_ERR T:42: " \o Val(exc.torrent).errorString \o "..."
    /\ Len(last_ping.body) < HcLimit

\* The fail ping of a PortCheckFailure or PortMismatch whose full message is
\* over the limit.
DetailOverLimit ==
    /\ last_ping.event = "fail"
    /\ exc.type = "HealthcheckError"
    /\ exc.portcheck_error # None \/ exc.mismatch_ports # None
    /\ Len(full_message(exc)) > HcLimit

\* "{code}({detail})"
CodeDetail(e) ==
    IF e.portcheck_error # None
    THEN e.message \o "(" \o PortcheckDetail(e) \o ")"
    ELSE e.message \o MismatchDetail(e)

ValidPort(o) == o # None /\ Val(o) \in 1..65535

\* C16: for a PortCheckFailure or PortMismatch whose full message is over the
\* limit the body is "{code}({detail})" without the context suffix, cut to its
\* first 100 characters with no ellipsis when longer; the body of an
\* E:MISMATCH failure with both ports in 1..65535 begins with
\* "E:MISMATCH(G:{gatewayPort}|T:{daemonPort})".
C16_DetailTruncation ==
    /\ DetailOverLimit =>
         last_ping.body = SubSeq(CodeDetail(exc), 1, Min(Len(CodeDetail(exc)), HcLimit))
    /\ /\ last_ping.event = "fail"
       /\ exc.type = "HealthcheckError"
       /\ exc.message = "E:MISMATCH"
       /\ exc.portcheck_error = None
       /\ exc.mismatch_ports # None
       /\ ValidPort(Val(exc.mismatch_ports).gluetun)
       /\ ValidPort(Val(exc.mismatch_ports).transmission)
       => LET g    == ToString(Val(Val(exc.mismatch_ports).gluetun))
              t    == ToString(Val(Val(exc.mismatch_ports).transmission))
              head == "E:MISMATCH(G:" \o g \o "|T:" \o t \o ")"
          IN  /\ Len(last_ping.body) >= Len(head)
              /\ SubSeq(last_ping.body, 1, Len(head)) = head

C16_Witness ==
    /\ DetailOverLimit
    /\ exc.mismatch_ports # None
    /\ Len(Val(exc.diag_context)) = MaxStrLen
    /\ last_ping.body = "E:MISMATCH(G:51413|T:60000)"

\* The handshake GET of the latest call was answered without the
\* X-Transmission-Session-Id header.
HandshakeWithoutToken ==
    rpc.handshake # None /\ ~TruthyStr(Val(rpc.handshake).header)

\* C17: when the handshake response carries no token header the call raises
\* the session error (ValueError "Could not retrieve Transmission Session
\* ID."), no POST is issued for that call, and the session has no token.
C17_HandshakeWithoutToken ==
    HandshakeWithoutToken =>
        /\ rpc.outcome = "raised"
        /\ rpc.gets = 1
        /\ rpc.posts = 0
        /\ rpc.first = None
        /\ exc = OtherError("ValueError", "Could not retrieve Transmission Session ID.")
        /\ tr_session = None
        /\ pc \in {"except", "finally", "loop"}

C17_Witness ==
    /\ HandshakeWithoutToken
    /\ rpc.method = "session-get"
    /\ pc = "finally"
    /\ last_ping.event = "fail"
    /\ last_ping.body = "Could not retrieve Transmission Session ID."

\* The torrents of the cycle, in the order the daemon returned them.
ReturnedTorrents == loc.torrents_data.torrents

\* i is the position of the first torrent with error code 3.
IsFirstSystemError(i) ==
    /\ ReturnedTorrents[i].error = SystemErrorCode
    /\ \A j \in 1..(i - 1) : ReturnedTorrents[j].error # SystemErrorCode

\* C18: a SystemErrorTorrent failure carries the first torrent, in the order
\* returned by the daemon, whose error code is 3; a cycle none of whose
\* torrents has error code 3 raises no SystemErrorTorrent failure, whatever
\* other error codes its torrents have.
C18_FirstSystemErrorTorrent ==
    /\ exc.torrent # None =>
         /\ exc.message = "E:SYS_ERR"
         /\ "torrent-get" \in fetched
         /\ \E i \in DOMAIN ReturnedTorrents :
              IsFirstSystemError(i) /\ Val(exc.torrent) = ReturnedTorrents[i]
    /\ ~HasSystemErrorTorrent =>
         exc.torrent = None /\ exc.message # "E:SYS_ERR" /\ Reported # "E:SYS_ERR"

C18_Witness ==
    /\ CycleEnded
    /\ Reported = "E:SYS_ERR"
    /\ Len(ReturnedTorrents) >= 2
    /\ ReturnedTorrents[1].error = 2
    /\ IsFirstSystemError(2)
    /\ Val(exc.torrent) = ReturnedTorrents[2]
    /\ Contains(last_ping.body, "T:" \o ToString(ReturnedTorrents[2].id))

\* The port status a context summary shows: the word in brackets after
\* "P:{port}".
StatusShown(ctx) ==
    LET n == Len("P:" \o FmtInt(transmission_port(loc)) \o "(")
    IN  IF SubSeq(ctx, n + 1, n + 5) = "OPEN)" THEN "OPEN"
        ELSE IF SubSeq(ctx, n + 1, n + 7) = "CLOSED)" THEN "CLOSED"
        ELSE "OTHER"

\* C19: the context summary of a cycle whose probe was Indeterminate, the one
\* attached to the PortCheckFailure it reports, shows the port status as
\* "CLOSED"; a summary shows "OPEN" exactly when the probe returned Open.
C19_IndeterminateShownClosed ==
    "probe" \in fetched =>
        /\ ProbeIndeterminate =>
             /\ exc.portcheck_error # None
             /\ exc.diag_context = Some(loc.diagnostic_context)
             /\ StatusShown(Val(exc.diag_context)) = "CLOSED"
        /\ StatusShown(loc.diagnostic_context) = "OPEN" <=> ProbeOpen
        /\ exc.diag_context # None =>
             (StatusShown(Val(exc.diag_context)) = "OPEN" <=> ProbeOpen)
        /\ StatusShown(loc.diagnostic_context) \in {"OPEN", "CLOSED"}

C19_Witness ==
    /\ CycleEnded
    /\ ProbeIndeterminate
    /\ Reported = "E:PORTCHECK_DOWN"
    /\ StatusShown(Val(exc.diag_context)) = "CLOSED"
    /\ Contains(last_ping.body, "E:PORTCHECK_DOWN(ConnectTimeout) | P:51413(CLOSED)")

\* C20: the handshake GET is issued only when the session has no token, at
\* most once in a cycle, and never in a cycle that follows a successful one:
\* the token a successful cycle ends with is on the session, unchanged, when
\* the next cycle begins its RPC calls; the token is taken off the session
\* only by the except handlers of a failed cycle.
C20_HandshakeOnlyWithoutToken ==
    /\ [](sent.handshake <= 1)
    /\ [](prev_outcome = "success" => sent.handshake = 0)
    /\ [](prev_outcome = "success" /\ sent.fail = 0 => tr_session # None)
    /\ [][sent'.handshake = sent.handshake + 1 =>
            tr_session = None /\ pc \in RpcMethods]_vars
    /\ [][pc \notin RpcMethods \cup {"except"} => tr_session' = tr_session]_vars
    /\ [][tr_session # None /\ tr_session' = None => pc = "except" /\ sent'.fail = 1]_vars

C20_Witness ==
    /\ prev_outcome = "success"
    /\ pc = "probe"
    /\ sent.calls = 3
    /\ sent.handshake = 0
    /\ tr_session # None

====
